---- MODULE Spec2Model ----
(***************************************************************************)
(* Model of the Varuna AHP prover round functions                          *)
(* (algorithms/src/snark/varuna/ahp/prover/round_functions/mod.rs).        *)
(*                                                                         *)
(* init_prover is modelled as a state machine: the sequential sampling     *)
(* loop over the circuits, then, circuit by circuit, the per-instance      *)
(* tasks of the parallel region (run in any order), the collection of      *)
(* their results, and the final State::initialize.                         *)
(*                                                                         *)
(* apply_randomized_selector is a second state machine: the division by    *)
(* the vanishing polynomial, the tasks of the parallel scaling of the      *)
(* coefficients (run in any order), and the return.                        *)
(*                                                                         *)
(* Spec holds the calls of init_prover, SelSpec the calls of               *)
(* apply_randomized_selector, BothSpec the calls of either.                *)
(***************************************************************************)
EXTENDS Integers, Sequences, FiniteSets, TLC

(***************************************************************************)
(* Bounds of the model.                                                    *)
(***************************************************************************)
\* The batch holds at most MaxInstances instances, over all its circuits.
MaxInstances == 3

(***************************************************************************)
(* The field F: PrimeField, here the prime field of P elements.            *)
(***************************************************************************)
P == 17

FOne == 1

FZero == 0

FMul(x, y) == (x * y) % P

FAdd(x, y) == (x + y) % P

(***************************************************************************)
(* The entropy source R: Rng + CryptoRng, a seeded deterministic stream.   *)
(* Its state is the seed and the number of elements drawn so far.          *)
(***************************************************************************)
Seeds == {3, 5}

\* F::rand(rng): the element the draw returns.
FRandValue(r) == (r.seed * (r.pos + 1) + r.pos * r.pos + 2) % P

\* F::rand(rng): the state of the source after the draw.
FRandNext(r) == [r EXCEPT !.pos = @ + 1]

(***************************************************************************)
(* Constraint instances (C: ConstraintSynthesizer<F>).  An instance        *)
(* allocates its public inputs, then its private variables, enforces its   *)
(* constraints, or fails with a synthesis error.                           *)
(***************************************************************************)
NoError == "none"

Instances ==
    { [fail |-> NoError, inputs |-> <<2>>, aux |-> <<3, 4, 1>>, cons |-> 1],
      [fail |-> NoError, inputs |-> <<3>>, aux |-> <<1, 2, 2>>, cons |-> 1],
      [fail |-> NoError, inputs |-> <<2, 1>>, aux |-> <<3>>, cons |-> 1],
      [fail |-> NoError, inputs |-> <<2>>, aux |-> <<3, 4>>, cons |-> 2],
      [fail |-> "AssignmentMissing", inputs |-> <<>>, aux |-> <<>>, cons |-> 0] }

(***************************************************************************)
(* prover::ConstraintSystem, the sink the instance writes to.              *)
(***************************************************************************)
\* prover::ConstraintSystem::new()
NewConstraintSystem ==
    [ public_variables |-> <<FOne>>,
      private_variables |-> <<>>,
      num_constraints |-> 0,
      num_public_variables |-> 1,
      num_private_variables |-> 0 ]

\* ConstraintSystem::alloc_input
AllocInput(pcs, v) ==
    [pcs EXCEPT !.public_variables = Append(@, v),
                !.num_public_variables = @ + 1]

\* ConstraintSystem::alloc
Alloc(pcs, v) ==
    [pcs EXCEPT !.private_variables = Append(@, v),
                !.num_private_variables = @ + 1]

\* ConstraintSystem::enforce
Enforce(pcs) == [pcs EXCEPT !.num_constraints = @ + 1]

RECURSIVE AllocInputs(_, _)
AllocInputs(pcs, vs) ==
    IF vs = <<>> THEN pcs ELSE AllocInputs(AllocInput(pcs, Head(vs)), Tail(vs))

RECURSIVE AllocAll(_, _)
AllocAll(pcs, vs) ==
    IF vs = <<>> THEN pcs ELSE AllocAll(Alloc(pcs, Head(vs)), Tail(vs))

RECURSIVE EnforceTimes(_, _)
EnforceTimes(pcs, n) ==
    IF n = 0 THEN pcs ELSE EnforceTimes(Enforce(pcs), n - 1)

\* instance.generate_constraints(&mut pcs)
GenerateConstraints(instance, pcs) ==
    IF instance.fail # NoError
    THEN [ok |-> FALSE, err |-> instance.fail, pcs |-> pcs]
    ELSE [ok |-> TRUE, err |-> NoError,
          pcs |-> EnforceTimes(
                     AllocAll(AllocInputs(pcs, instance.inputs), instance.aux),
                     instance.cons)]

\* matrices::add_randomizing_variables: three private variables holding the
\* triple and one constraint over them.
None == <<>>

AddRandomizingVariables(pcs, rand_assignments) ==
    LET assignments == IF rand_assignments = None
                       THEN <<FOne, FOne, FOne>>
                       ELSE rand_assignments
    IN Enforce(AllocAll(pcs, assignments))

RECURSIVE NextPowerOfTwo(_, _)
NextPowerOfTwo(n, p) == IF p >= n THEN p ELSE NextPowerOfTwo(n, 2 * p)

\* matrices::pad_input_for_indexer_and_prover: zero public variables up to the
\* next power of two.
RECURSIVE PadInputForIndexerAndProver(_)
PadInputForIndexerAndProver(pcs) ==
    IF pcs.num_public_variables >= NextPowerOfTwo(pcs.num_public_variables, 1)
    THEN pcs
    ELSE PadInputForIndexerAndProver(AllocInput(pcs, FZero))

(***************************************************************************)
(* Public-input admissibility (AHPForR1CS::formatted_public_input_is_       *)
(* admissible): the padded public vector has a power-of-two length.        *)
(***************************************************************************)
FormattedPublicInputIsAdmissible(input) ==
    Len(input) >= 1 /\ NextPowerOfTwo(Len(input), 1) = Len(input)

(***************************************************************************)
(* Circuits (indexer::Circuit): the index information and the three sparse *)
(* matrices.  A row is a sequence of <<coefficient, column>> pairs; the    *)
(* columns count from 0.  In zero-knowledge mode the index was built with  *)
(* the randomizing variables and their constraint.                         *)
(***************************************************************************)
CircuitIds == {1, 2}

ZkRows(zk, col) == IF zk THEN << << <<1, col>> >> >> ELSE <<>>

Circuit(id, zk) ==
    IF id = 1
    THEN [ id |-> 1,
           index_info |-> [ num_constraints |-> IF zk THEN 2 ELSE 1,
                            num_public_variables |-> 2,
                            num_private_variables |-> IF zk THEN 6 ELSE 3,
                            num_variables |-> IF zk THEN 8 ELSE 5 ],
           a |-> << << <<1, 0>>, <<2, 2>> >> >> \o ZkRows(zk, 5),
           b |-> << << <<1, 1>> >> >> \o ZkRows(zk, 6),
           c |-> << << <<3, 4>>, <<1, 3>> >> >> \o ZkRows(zk, 7) ]
    ELSE [ id |-> 2,
           index_info |-> [ num_constraints |-> IF zk THEN 3 ELSE 2,
                            num_public_variables |-> 2,
                            num_private_variables |-> IF zk THEN 5 ELSE 2,
                            num_variables |-> IF zk THEN 7 ELSE 4 ],
           a |-> << << <<1, 1>> >>, << <<2, 2>>, <<1, 3>> >> >> \o ZkRows(zk, 4),
           b |-> << << <<1, 0>> >>, << <<1, 1>> >> >> \o ZkRows(zk, 5),
           c |-> << << <<1, 2>> >>, << <<4, 3>>, <<1, 0>> >> >> \o ZkRows(zk, 6) ]

(***************************************************************************)
(* inner_product: the row against [public || private].                     *)
(***************************************************************************)
\* The variable of column i (lines 235-238); the columns count from 0.
FetchVariable(public_variables, private_variables, i, num_public_variables) ==
    IF i < num_public_variables
    THEN public_variables[i + 1]
    ELSE private_variables[i - num_public_variables + 1]

\* Whether fetching column i stays inside the vector it indexes.
InBounds(public_variables, private_variables, i, num_public_variables) ==
    IF i < num_public_variables
    THEN i + 1 <= Len(public_variables)
    ELSE i - num_public_variables + 1 <= Len(private_variables)

\* Faulty variant of InnerProduct: the shortcut adds the coefficient, not the
\* variable.
RECURSIVE InnerProductShortcutAddsOne(_, _, _, _)
InnerProductShortcutAddsOne(public_variables, private_variables, row, num_public_variables) ==
    IF row = <<>>
    THEN FZero
    ELSE LET coefficient == Head(row)[1]
             variable == FetchVariable(public_variables, private_variables,
                                       Head(row)[2], num_public_variables)
             term == IF coefficient = FOne THEN coefficient
                     ELSE FMul(variable, coefficient)
         IN FAdd(term, InnerProductShortcutAddsOne(public_variables,
                                                   private_variables,
                                                   Tail(row), num_public_variables))

RECURSIVE InnerProduct(_, _, _, _)
InnerProduct(public_variables, private_variables, row, num_public_variables) ==
    IF row = <<>>
    THEN FZero
    ELSE LET coefficient == Head(row)[1]
             variable == FetchVariable(public_variables, private_variables,
                                       Head(row)[2], num_public_variables)
             term == IF coefficient = FOne THEN variable
                     ELSE FMul(variable, coefficient)
         IN FAdd(term, InnerProduct(public_variables, private_variables,
                                    Tail(row), num_public_variables))

\* z_X: one inner product per row of the matrix (lines 133-153).
MatrixProduct(public_variables, private_variables, matrix, num_public_variables) ==
    [k \in 1..Len(matrix) |->
        InnerProduct(public_variables, private_variables, matrix[k],
                     num_public_variables)]

MatrixInBounds(public_variables, private_variables, matrix, num_public_variables) ==
    \A k \in 1..Len(matrix) : \A j \in 1..Len(matrix[k]) :
        InBounds(public_variables, private_variables, matrix[k][j][2],
                 num_public_variables)

(***************************************************************************)
(* The per-instance task of init_prover (lines 80-158).  Its outcome is    *)
(* Ok(Assignments), Err(error) or a panic.                                 *)
(***************************************************************************)
NoAssignments == <<>>

Ok(assignments) == [tag |-> "ok", err |-> NoError, val |-> assignments]

Err(error) == [tag |-> "err", err |-> error, val |-> NoAssignments]

Panic == [tag |-> "panic", err |-> NoError, val |-> NoAssignments]

\* Faulty variant of Assignments: the two vectors change places.
AssignmentsSwapped(padded_public_variables, private_variables, z_a, z_b, z_c) ==
    [ public |-> private_variables,
      private |-> padded_public_variables,
      z_a |-> z_a, z_b |-> z_b, z_c |-> z_c ]

\* prover::Assignments(public, private, z_a, z_b, z_c), line 157.
Assignments(padded_public_variables, private_variables, z_a, z_b, z_c) ==
    [ public |-> padded_public_variables,
      private |-> private_variables,
      z_a |-> z_a, z_b |-> z_b, z_c |-> z_c ]

\* Lines 85-98: synthesis, the injection of the triple, the padding.
SynthesizeAndPad(instance, rand_assignments, zk) ==
    LET g == GenerateConstraints(instance, NewConstraintSystem)
        injected == IF zk THEN AddRandomizingVariables(g.pcs, rand_assignments)
                    ELSE g.pcs
    IN [g EXCEPT !.pcs = IF g.ok THEN PadInputForIndexerAndProver(injected) ELSE @]

\* Lines 124-126: the comparison with the index.
InstanceMatchesIndex(circuit, pcs) ==
    /\ circuit.index_info.num_constraints = pcs.num_constraints
    /\ circuit.index_info.num_variables
          = pcs.num_public_variables + pcs.num_private_variables

\* Lines 102-157: the checks on the snapshot and the three products.
AssignmentsOfSnapshot(circuit, pcs) ==
    LET pub == pcs.public_variables
        priv == pcs.private_variables
        n == pcs.num_public_variables
    IN IF \/ Len(pub) # pcs.num_public_variables
          \/ pub = <<>>
          \/ pub[1] # FOne
          \/ Len(priv) # pcs.num_private_variables
       THEN Panic
       ELSE IF ~InstanceMatchesIndex(circuit, pcs)
       THEN Err("InstanceDoesNotMatchIndex")
       ELSE IF ~FormattedPublicInputIsAdmissible(pub)
       THEN Err("InadmissiblePublicInput")
       ELSE IF ~(/\ MatrixInBounds(pub, priv, circuit.a, n)
                 /\ MatrixInBounds(pub, priv, circuit.b, n)
                 /\ MatrixInBounds(pub, priv, circuit.c, n))
       THEN Panic
       ELSE Ok(Assignments(pub, priv,
                           MatrixProduct(pub, priv, circuit.a, n),
                           MatrixProduct(pub, priv, circuit.b, n),
                           MatrixProduct(pub, priv, circuit.c, n)))

\* Faulty variant of BuildAssignments: the result of generate_constraints is
\* dropped (no ? at line 86) and the closure goes on with the sink.
BuildAssignmentsIgnoringFailure(circuit, instance, rand_assignments, zk) ==
    LET g == GenerateConstraints(instance, NewConstraintSystem)
        injected == IF zk THEN AddRandomizingVariables(g.pcs, rand_assignments)
                    ELSE g.pcs
    IN AssignmentsOfSnapshot(circuit, PadInputForIndexerAndProver(injected))

\* The whole closure of lines 80-158.
BuildAssignments(circuit, instance, rand_assignments, zk) ==
    LET s == SynthesizeAndPad(instance, rand_assignments, zk)
    IN IF ~s.ok THEN Err(s.err) ELSE AssignmentsOfSnapshot(circuit, s.pcs)

(***************************************************************************)
(* The state of one call of init_prover.                                   *)
(***************************************************************************)
VARIABLES
    circuits_to_constraints,  \* the input map, as the sequence of its entries in key order
    zk,                       \* MM::ZK
    rng,                      \* the entropy source
    draws,                    \* history: the draws made, in the order they were made
    randomizing_assignments,  \* line 53: per circuit, per instance, a triple or None
    pc,                       \* "sample", "build" or "done"
    ci,                       \* the entry of the map the outer map() of line 72 is at
    slots,                    \* the outcomes of the tasks of the circuit at ci
    saved_error,              \* the error the parallel collect of line 159 keeps
    indices_and_assignments,  \* line 69: the entries collected so far
    result                    \* what init_prover returned

(***************************************************************************)
(* The state of one call of apply_randomized_selector.                     *)
(***************************************************************************)
VARIABLES
    sel_args,    \* combiner, target_domain, src_domain, remainder_witness and
                 \* the polynomial as the caller passed it
    poly,        \* the caller's polynomial, behind &mut
    h_i,         \* the quotient
    scaled,      \* the coefficients the parallel for_each has multiplied
    sel_pc,      \* "divide", "scale", "finish" or "done"
    sel_result   \* what apply_randomized_selector returned

(***************************************************************************)
(* The state of one run of the per-instance closure of init_prover (lines  *)
(* 80-158), step by step.                                                  *)
(***************************************************************************)
VARIABLES
    task_args,   \* the circuit, the instance, its triple, MM::ZK and the verdict
                 \* of the public-input admissibility predicate
    task_pc,     \* the step the closure is at
    pcs,         \* the sink
    checks,      \* history: the checks made, in the order they were made
    task_out     \* what the closure returned

(***************************************************************************)
(* The state of one run of the test                                        *)
(* check_division_by_vanishing_poly_preserve_sparseness (lines 246-265).   *)
(***************************************************************************)
VARIABLES
    test_args,    \* val and the sizes of domain and small_domain
    test_pc,      \* the statement the test is at
    test_i,       \* the variable i of the loop of line 256
    evals,        \* line 255
    test_poly,    \* p, line 259
    p_div_v,      \* line 261
    p_mod_v,      \* line 261
    test_result   \* "passed", or "panic" when an assertion or an unwrap fails

(***************************************************************************)
(* The state of the transaction store (vm/compiler/src/ledger/store/       *)
(* transaction/mod.rs): the three maps of TransactionMemory, and what the  *)
(* last call was and returned.                                             *)
(***************************************************************************)
VARIABLES
    id_map,            \* transaction ID -> transaction type
    deployment_store,  \* the deployment store, transaction ID -> transaction
    execution_store,   \* the execution store, transaction ID -> transaction
    store_call,        \* the last call: the operation, the ID, whether it returned Ok
    atomic_log,        \* history: the atomic operations of the last call, in order
    last_op,           \* history: per ID, the last insert or remove that returned Ok
    got                \* what the last get_transaction returned

prover_vars == << circuits_to_constraints, zk, rng, draws, randomizing_assignments,
                  pc, ci, slots, saved_error, indices_and_assignments, result >>

sel_vars == << sel_args, poly, h_i, scaled, sel_pc, sel_result >>

task_vars == << task_args, task_pc, pcs, checks, task_out >>

test_vars == << test_args, test_pc, test_i, evals, test_poly, p_div_v, p_mod_v,
                test_result >>

store_vars == << id_map, deployment_store, execution_store, store_call, atomic_log,
                 last_op, got >>

vars == << prover_vars, sel_vars, task_vars, test_vars, store_vars >>

\* What a step of init_prover leaves alone.
outside_prover == << sel_vars, task_vars, test_vars, store_vars >>

\* What a step of apply_randomized_selector leaves alone.
outside_sel == << prover_vars, task_vars, test_vars, store_vars >>

\* What a step of the closure leaves alone.
outside_task == << prover_vars, sel_vars, test_vars, store_vars >>

\* What a step of the test leaves alone.
outside_test == << prover_vars, sel_vars, task_vars, store_vars >>

\* What a call of the transaction store leaves alone.
outside_store == << prover_vars, sel_vars, task_vars, test_vars >>

Pending == [tag |-> "pending", err |-> NoError, val |-> NoAssignments]

NoState == <<>>

NoResult == [tag |-> "none", err |-> NoError, state |-> NoState]

NumCircuits == Len(circuits_to_constraints)

(***************************************************************************)
(* The batches init_prover is called with: a map from circuits to lists of *)
(* instances, iterated in the order of its keys.                           *)
(***************************************************************************)
Min(S) == CHOOSE x \in S : \A y \in S : x <= y

RECURSIVE SortedSeq(_)
SortedSeq(S) == IF S = {} THEN <<>> ELSE <<Min(S)>> \o SortedSeq(S \ {Min(S)})

\* The sum of the first i entries of lens.
RECURSIVE SumUpTo(_, _)
SumUpTo(lens, i) == IF i = 0 THEN 0 ELSE lens[i] + SumUpTo(lens, i - 1)

\* The batch over the circuits ids whose entry i holds lens[i] instances, taken
\* in order from the sequence flat.
MakeBatch(ids, lens, flat) ==
    [i \in 1..Len(ids) |->
        [ id |-> ids[i],
          constraints |-> [k \in 1..lens[i] |-> flat[SumUpTo(lens, i - 1) + k]] ]]

BatchesOver(S) ==
    LET ids == SortedSeq(S)
        n == Len(ids)
    IN UNION { { MakeBatch(ids, lens, flat) :
                    flat \in [1..SumUpTo(lens, n) -> Instances] } :
               lens \in { l \in [1..n -> 0..MaxInstances] :
                            SumUpTo(l, n) <= MaxInstances } }

Batches == UNION { BatchesOver(S) : S \in SUBSET CircuitIds }

(***************************************************************************)
(* Lines 53-67: the sampling loop.                                         *)
(***************************************************************************)
\* Faulty variant of SampleInstance: the triple is drawn in every mode.
SampleInstanceAlways(s, id, k, mode) ==
    LET a == FRandValue(s.rng)
        r1 == FRandNext(s.rng)
        b == FRandValue(r1)
        r2 == FRandNext(r1)
        c == FMul(a, b)
    IN [ rng |-> r2,
         circuit_assignments |->
             Append(s.circuit_assignments, IF mode THEN <<a, b, c>> ELSE None),
         draws |-> s.draws \o << [circuit |-> id, instance |-> k, draw |-> "a",
                                  pos |-> s.rng.pos],
                                 [circuit |-> id, instance |-> k, draw |-> "b",
                                  pos |-> r1.pos] >> ]

\* Faulty variant of SampleInstance: b is drawn before a.
SampleInstanceBFirst(s, id, k, mode) ==
    IF mode
    THEN LET b == FRandValue(s.rng)
             r1 == FRandNext(s.rng)
             a == FRandValue(r1)
             r2 == FRandNext(r1)
             c == FMul(a, b)
         IN [ rng |-> r2,
              circuit_assignments |-> Append(s.circuit_assignments, <<a, b, c>>),
              draws |-> s.draws \o << [circuit |-> id, instance |-> k, draw |-> "b",
                                       pos |-> s.rng.pos],
                                      [circuit |-> id, instance |-> k, draw |-> "a",
                                       pos |-> r1.pos] >> ]
    ELSE [s EXCEPT !.circuit_assignments = Append(@, None)]

\* Lines 57-64: one iteration of the inner loop, for instance k of circuit id.
SampleInstance(s, id, k, mode) ==
    IF mode
    THEN LET a == FRandValue(s.rng)
             r1 == FRandNext(s.rng)
             b == FRandValue(r1)
             r2 == FRandNext(r1)
             c == FMul(a, b)
         IN [ rng |-> r2,
              circuit_assignments |-> Append(s.circuit_assignments, <<a, b, c>>),
              draws |-> s.draws \o << [circuit |-> id, instance |-> k, draw |-> "a",
                                       pos |-> s.rng.pos],
                                      [circuit |-> id, instance |-> k, draw |-> "b",
                                       pos |-> r1.pos] >> ]
    ELSE [s EXCEPT !.circuit_assignments = Append(@, None)]

\* Lines 55-65: the inner loop, over the instances k..n of circuit id.
RECURSIVE SampleInstances(_, _, _, _, _)
SampleInstances(s, id, k, n, mode) ==
    IF k > n THEN s
    ELSE SampleInstances(SampleInstance(s, id, k, mode), id, k + 1, n, mode)

\* Lines 54-67: one iteration of the outer loop.
SampleCircuit ==
    /\ pc = "sample"
    /\ Len(randomizing_assignments) < NumCircuits
    /\ LET entry == circuits_to_constraints[Len(randomizing_assignments) + 1]
           s == SampleInstances(
                    [rng |-> rng, circuit_assignments |-> <<>>, draws |-> draws],
                    entry.id, 1, Len(entry.constraints), zk)
       IN /\ rng' = s.rng
          /\ draws' = s.draws
          /\ randomizing_assignments' =
                Append(randomizing_assignments, s.circuit_assignments)
    /\ UNCHANGED << circuits_to_constraints, zk, pc, ci, slots, saved_error,
                    indices_and_assignments, result >>
    /\ UNCHANGED outside_prover

(***************************************************************************)
(* Lines 69-162: the map over the circuits and, inside it, the parallel    *)
(* map over the instances of one circuit.                                  *)
(***************************************************************************)
PendingSlots(i) ==
    IF i <= NumCircuits
    THEN [k \in 1..Len(circuits_to_constraints[i].constraints) |-> Pending]
    ELSE <<>>

\* Line 69: the sampling loop is over and the map over the circuits begins.
BeginBuild ==
    /\ pc = "sample"
    /\ Len(randomizing_assignments) = NumCircuits
    /\ pc' = "build"
    /\ ci' = 1
    /\ slots' = PendingSlots(1)
    /\ UNCHANGED << circuits_to_constraints, zk, rng, draws, randomizing_assignments,
                    saved_error, indices_and_assignments, result >>
    /\ UNCHANGED outside_prover

\* Faulty variant of TaskOutcome: every instance of a circuit gets the circuit's first
\* triple.
TaskOutcomeFirstTriple(batch, rand_assignments, i, k, mode) ==
    BuildAssignments(Circuit(batch[i].id, mode), batch[i].constraints[k],
                     rand_assignments[i][1], mode)

\* Faulty variant of TaskOutcome: the tasks take the circuit's triples in the order in
\* which they start.
TaskOutcomeBySchedule(batch, rand_assignments, i, k, mode) ==
    BuildAssignments(Circuit(batch[i].id, mode), batch[i].constraints[k],
                     rand_assignments[i][
                        1 + Cardinality({j \in DOMAIN slots : slots[j] # Pending})],
                     mode)

\* Lines 71, 77-80: the task of instance k of entry i, which the two zips pair
\* with triple k of the circuit's triples.
TaskOutcome(batch, rand_assignments, i, k, mode) ==
    BuildAssignments(Circuit(batch[i].id, mode), batch[i].constraints[k],
                     rand_assignments[i][k], mode)

\* Line 159, collect::<Result<Vec<_>, _>>() over a parallel iterator: the first
\* error to arrive is kept.
SaveError(saved, outcome) ==
    IF outcome.tag = "err" /\ saved = NoError THEN outcome.err ELSE saved

\* One task of the parallel region; the tasks of a circuit run in any order.
RunInstance(k) ==
    /\ pc = "build"
    /\ ci <= NumCircuits
    /\ k \in DOMAIN slots
    /\ slots[k] = Pending
    /\ LET outcome == TaskOutcome(circuits_to_constraints, randomizing_assignments,
                                  ci, k, zk)
       IN /\ slots' = [slots EXCEPT ![k] = outcome]
          /\ saved_error' = SaveError(saved_error, outcome)
    /\ UNCHANGED << circuits_to_constraints, zk, rng, draws, randomizing_assignments,
                    pc, ci, indices_and_assignments, result >>
    /\ UNCHANGED outside_prover

\* Faulty variant of CollectInstances: the failed tasks are dropped and the rest kept.
CollectInstancesKeepOk(outcomes, saved) ==
    IF \E k \in DOMAIN outcomes : outcomes[k].tag = "panic" THEN Panic
    ELSE Ok([k \in DOMAIN outcomes |-> outcomes[k].val])

\* Faulty variant of CollectInstances: the values are collected in reverse order.
CollectInstancesReversed(outcomes, saved) ==
    IF \E k \in DOMAIN outcomes : outcomes[k].tag = "panic" THEN Panic
    ELSE IF saved # NoError THEN Err(saved)
    ELSE Ok([k \in DOMAIN outcomes |-> outcomes[Len(outcomes) + 1 - k].val])

\* Line 159: what the collect returns for the circuit.
CollectInstances(outcomes, saved) ==
    IF \E k \in DOMAIN outcomes : outcomes[k].tag = "panic" THEN Panic
    ELSE IF saved # NoError THEN Err(saved)
    ELSE Ok([k \in DOMAIN outcomes |-> outcomes[k].val])

\* Whether the parallel region of the circuit can end: every task has run, or
\* an error or a panic stops the tasks that have not started.
RegionOver ==
    \/ \A k \in DOMAIN slots : slots[k] # Pending
    \/ saved_error # NoError
    \/ \E k \in DOMAIN slots : slots[k].tag = "panic"

\* Lines 159-162: the circuit's entry is collected; an error ends init_prover.
CollectCircuit ==
    /\ pc = "build"
    /\ ci <= NumCircuits
    /\ RegionOver
    /\ LET r == CollectInstances(slots, saved_error)
       IN IF r.tag = "ok"
          THEN /\ indices_and_assignments' =
                     Append(indices_and_assignments,
                            [id |-> circuits_to_constraints[ci].id,
                             assignments |-> r.val])
               /\ ci' = ci + 1
               /\ slots' = PendingSlots(ci + 1)
               /\ UNCHANGED << pc, result >>
          ELSE /\ result' = [tag |-> r.tag, err |-> r.err, state |-> NoState]
               /\ pc' = "done"
               /\ UNCHANGED << ci, slots, indices_and_assignments >>
    /\ UNCHANGED << circuits_to_constraints, zk, rng, draws, randomizing_assignments,
                    saved_error >>
    /\ UNCHANGED outside_prover

\* prover::State::initialize: the state holds the entries, in their order.
StateInitialize(entries) == [tag |-> "ok", err |-> NoError, state |-> entries]

\* Lines 164-166.
Initialize ==
    /\ pc = "build"
    /\ ci = NumCircuits + 1
    /\ result' = StateInitialize(indices_and_assignments)
    /\ pc' = "done"
    /\ UNCHANGED << circuits_to_constraints, zk, rng, draws, randomizing_assignments,
                    ci, slots, saved_error, indices_and_assignments >>
    /\ UNCHANGED outside_prover

(***************************************************************************)
(* The closure of lines 80-158, step by step: synthesis, injection and     *)
(* padding, the comparison with the index, the admissibility check, the    *)
(* three products.  The admissibility predicate is external to this code,  *)
(* so its verdict on the padded public vector is an input of the run.      *)
(***************************************************************************)
NoSink == <<>>

\* Faulty variant of TaskOrder: the admissibility check is made before the
\* comparison with the index.
TaskOrderAdmissibleFirst ==
    << "synthesize", "pad", "check_admissible", "check_index", "products", "done" >>

\* The order of the steps of the closure (lines 85-157).
TaskOrder ==
    << "synthesize", "pad", "check_index", "check_admissible", "products", "done" >>

\* The step that follows step.
TaskAfter(step) ==
    TaskOrder[(CHOOSE n \in DOMAIN TaskOrder : TaskOrder[n] = step) + 1]

\* Lines 85-86: the instance writes to a fresh sink, or fails.
TaskSynthesize ==
    /\ task_pc = "synthesize"
    /\ LET g == GenerateConstraints(task_args.instance, NewConstraintSystem)
       IN /\ pcs' = g.pcs
          /\ checks' = Append(checks, "synthesis")
          /\ IF g.ok
             THEN /\ task_pc' = TaskAfter("synthesize")
                  /\ UNCHANGED task_out
             ELSE /\ task_out' = Err(g.err)
                  /\ task_pc' = "done"
    /\ UNCHANGED task_args
    /\ UNCHANGED outside_task

\* Lines 92-98: the injection of the triple and the padding.
TaskPad ==
    /\ task_pc = "pad"
    /\ pcs' = PadInputForIndexerAndProver(
                 IF task_args.zk
                 THEN AddRandomizingVariables(pcs, task_args.rand_assignments)
                 ELSE pcs)
    /\ task_pc' = TaskAfter("pad")
    /\ UNCHANGED << task_args, checks, task_out >>
    /\ UNCHANGED outside_task

\* Lines 111-113: the three assertions on the destructured sink.
SnapshotAssertions(sink) ==
    /\ Len(sink.public_variables) = sink.num_public_variables
    /\ sink.public_variables # <<>>
    /\ sink.public_variables[1] = FOne
    /\ Len(sink.private_variables) = sink.num_private_variables

\* Lines 102-128: the assertions and the comparison with the index.
TaskCheckIndex ==
    /\ task_pc = "check_index"
    /\ IF ~SnapshotAssertions(pcs)
       THEN /\ task_out' = Panic
            /\ task_pc' = "done"
            /\ UNCHANGED checks
       ELSE /\ checks' = Append(checks, "counts")
            /\ IF InstanceMatchesIndex(Circuit(task_args.id, task_args.zk), pcs)
               THEN /\ task_pc' = TaskAfter("check_index")
                    /\ UNCHANGED task_out
               ELSE /\ task_out' = Err("InstanceDoesNotMatchIndex")
                    /\ task_pc' = "done"
    /\ UNCHANGED << task_args, pcs >>
    /\ UNCHANGED outside_task

\* Line 130: the admissibility check of the padded public vector.
TaskCheckAdmissible ==
    /\ task_pc = "check_admissible"
    /\ checks' = Append(checks, "admissibility")
    /\ IF task_args.admissible
       THEN /\ task_pc' = TaskAfter("check_admissible")
            /\ UNCHANGED task_out
       ELSE /\ task_out' = Err("InadmissiblePublicInput")
            /\ task_pc' = "done"
    /\ UNCHANGED << task_args, pcs >>
    /\ UNCHANGED outside_task

\* Lines 132-157: z_a, z_b, z_c and the Assignments.
TaskProducts ==
    /\ task_pc = "products"
    /\ LET circuit == Circuit(task_args.id, task_args.zk)
           pub == pcs.public_variables
           priv == pcs.private_variables
           n == pcs.num_public_variables
       IN task_out' =
             IF /\ MatrixInBounds(pub, priv, circuit.a, n)
                /\ MatrixInBounds(pub, priv, circuit.b, n)
                /\ MatrixInBounds(pub, priv, circuit.c, n)
             THEN Ok(Assignments(pub, priv,
                                 MatrixProduct(pub, priv, circuit.a, n),
                                 MatrixProduct(pub, priv, circuit.b, n),
                                 MatrixProduct(pub, priv, circuit.c, n)))
             ELSE Panic
    /\ task_pc' = TaskAfter("products")
    /\ UNCHANGED << task_args, pcs, checks >>
    /\ UNCHANGED outside_task

(***************************************************************************)
(* Dense polynomials over F (fft::DensePolynomial): the sequence of the    *)
(* coefficients, the constant term first.                                  *)
(***************************************************************************)
FSub(x, y) == (x - y + P) % P

FInv(x) == CHOOSE y \in 0..(P - 1) : x = 0 \/ FMul(x, y) = FOne

Coeff(p, j) == IF j \in DOMAIN p THEN p[j] ELSE FZero

\* DensePolynomial::from_coefficients_vec: the leading zeros are dropped.
RECURSIVE Trim(_)
Trim(p) ==
    IF p = <<>> \/ p[Len(p)] # FZero THEN p ELSE Trim(SubSeq(p, 1, Len(p) - 1))

\* DensePolynomial::is_zero
PolyIsZero(p) == \A j \in DOMAIN p : p[j] = FZero

PolyAdd(p, q) ==
    Trim([j \in 1..(IF Len(p) >= Len(q) THEN Len(p) ELSE Len(q)) |->
             FAdd(Coeff(p, j), Coeff(q, j))])

\* fft::EvaluationDomain of the given size.
EvaluationDomain(size) ==
    [ size |-> size,
      size_as_field_element |-> size % P,
      size_inv |-> FInv(size % P) ]

\* DensePolynomial::mul_by_vanishing_poly: p * (x^size - 1).
MulByVanishingPoly(p, domain) ==
    Trim([j \in 1..(Len(p) + domain.size) |->
             FSub(IF j > domain.size THEN p[j - domain.size] ELSE FZero,
                  Coeff(p, j))])

\* The long division by x^n - 1.
RECURSIVE LongDivision(_, _, _)
LongDivision(remainder, quotient, n) ==
    LET r == Trim(remainder)
        top == Len(r)
    IN IF top <= n
       THEN [some |-> TRUE, q |-> Trim(quotient), r |-> r]
       ELSE LongDivision([r EXCEPT ![top] = FZero,
                                   ![top - n] = FAdd(@, r[top])],
                         [quotient EXCEPT ![top - n] = FAdd(@, r[top])],
                         n)

\* DensePolynomial::divide_by_vanishing_poly: Some((quotient, remainder)), or
\* None when the domain has no vanishing polynomial to divide by.
DivideByVanishingPoly(p, domain) ==
    IF domain.size < 1
    THEN [some |-> FALSE, q |-> <<>>, r |-> <<>>]
    ELSE LongDivision(p,
                      [j \in 1..(IF Len(p) > domain.size
                                 THEN Len(p) - domain.size ELSE 0) |-> FZero],
                      domain.size)

RECURSIVE FPow(_, _)
FPow(x, n) == IF n = 0 THEN FOne ELSE FMul(x, FPow(x, n - 1))

\* The generator of the domain: an element of order size.
GroupGen(size) ==
    Min({ g \in 1..(P - 1) :
            /\ FPow(g, size) = FOne
            /\ \A n \in 1..(size - 1) : FPow(g, n) # FOne })

\* EvaluationDomain::elements: the points of the domain, the k-th being the
\* k-th power of the generator (k from 0).
Elements(domain) ==
    [k \in 1..domain.size |-> FPow(GroupGen(domain.size), k - 1)]

\* DensePolynomial::evaluate
RECURSIVE Evaluate(_, _)
Evaluate(p, x) ==
    IF p = <<>> THEN FZero ELSE FAdd(Head(p), FMul(x, Evaluate(Tail(p), x)))

\* DensePolynomial::degree
Degree(p) == IF Trim(p) = <<>> THEN 0 ELSE Len(Trim(p)) - 1

(***************************************************************************)
(* apply_randomized_selector (lines 174-222).                              *)
(***************************************************************************)
NoPoly == [some |-> FALSE, poly |-> <<>>]

SomePoly(p) == [some |-> TRUE, poly |-> p]

SelNoResult == [tag |-> "none", err |-> NoError, h_i |-> <<>>, xg_i |-> NoPoly]

SelOk(h, xg) == [tag |-> "ok", err |-> NoError, h_i |-> h, xg_i |-> xg]

SelErr(error) == [tag |-> "err", err |-> error, h_i |-> <<>>, xg_i |-> NoPoly]

SelPanic == [tag |-> "panic", err |-> NoError, h_i |-> <<>>, xg_i |-> NoPoly]

\* Faulty variant of Multiplier: the size of the target domain, not its inverse.
MultiplierNoInverse(args) ==
    FMul(FMul(args.combiner, args.src_domain.size_as_field_element),
         args.target_domain.size_as_field_element)

\* Faulty variant of Multiplier: the size of the source domain is left out.
MultiplierNoSrcSize(args) ==
    FMul(args.combiner, args.target_domain.size_inv)

\* Lines 199 and 213.
Multiplier(args) ==
    FMul(FMul(args.combiner, args.src_domain.size_as_field_element),
         args.target_domain.size_inv)

\* Lines 195-198: without remainder witness, the division of the polynomial.
SelDivide ==
    /\ sel_pc = "divide"
    /\ LET d == DivideByVanishingPoly(poly, sel_args.src_domain)
       IN IF ~d.some
          THEN /\ sel_result' = SelErr("could not divide by vanishing poly")
               /\ sel_pc' = "done"
               /\ UNCHANGED h_i
          ELSE IF ~PolyIsZero(d.r)
          THEN /\ sel_result' = SelPanic
               /\ sel_pc' = "done"
               /\ UNCHANGED h_i
          ELSE /\ h_i' = d.q
               /\ sel_pc' = "scale"
               /\ UNCHANGED sel_result
    /\ UNCHANGED << sel_args, poly, scaled >>
    /\ UNCHANGED outside_sel

\* Lines 200 and 214: one task of the parallel for_each, on coefficient j of
\* the quotient (without remainder witness) or of the caller's polynomial.
ScaleCoefficient(c, multiplier) == FMul(c, multiplier)

\* Faulty variant of SelScale: with remainder witness the coefficients of a
\* copy are multiplied, the caller's polynomial is left as it was.
SelScaleCopy(j) ==
    /\ sel_pc = "scale"
    /\ j \notin scaled
    /\ IF sel_args.remainder_witness
       THEN /\ j \in DOMAIN poly
            /\ UNCHANGED << poly, h_i >>
       ELSE /\ j \in DOMAIN h_i
            /\ h_i' = [h_i EXCEPT ![j] = ScaleCoefficient(@, Multiplier(sel_args))]
            /\ UNCHANGED poly
    /\ scaled' = scaled \cup {j}
    /\ UNCHANGED << sel_args, sel_pc, sel_result >>
    /\ UNCHANGED outside_sel

SelScale(j) ==
    /\ sel_pc = "scale"
    /\ j \notin scaled
    /\ IF sel_args.remainder_witness
       THEN /\ j \in DOMAIN poly
            /\ poly' = [poly EXCEPT ![j] = ScaleCoefficient(@, Multiplier(sel_args))]
            /\ UNCHANGED h_i
       ELSE /\ j \in DOMAIN h_i
            /\ h_i' = [h_i EXCEPT ![j] = ScaleCoefficient(@, Multiplier(sel_args))]
            /\ UNCHANGED poly
    /\ scaled' = scaled \cup {j}
    /\ UNCHANGED << sel_args, sel_pc, sel_result >>
    /\ UNCHANGED outside_sel

\* Lines 201-202: the scaled quotient is returned, with no remainder witness.
SelReturnQuotient ==
    /\ sel_pc = "scale"
    /\ ~sel_args.remainder_witness
    /\ scaled = DOMAIN h_i
    /\ sel_result' = SelOk(h_i, NoPoly)
    /\ sel_pc' = "done"
    /\ UNCHANGED << sel_args, poly, h_i, scaled >>
    /\ UNCHANGED outside_sel

\* Faulty variant of RemainderWitness: the remainder is not multiplied by the
\* vanishing polynomial of the target domain before the second division.
RemainderWitnessNoExpand(p, args) ==
    LET d1 == DivideByVanishingPoly(p, args.src_domain)
        d2 == DivideByVanishingPoly(d1.r, args.src_domain)
    IN IF ~d1.some \/ ~d2.some \/ ~PolyIsZero(d2.r)
       THEN SelPanic
       ELSE SelOk(d1.q, SomePoly(d2.q))

\* Lines 215-220: the two divisions of the scaled polynomial.
RemainderWitness(p, args) ==
    LET d1 == DivideByVanishingPoly(p, args.src_domain)
        product == MulByVanishingPoly(d1.r, args.target_domain)
        d2 == DivideByVanishingPoly(product, args.src_domain)
    IN IF ~d1.some \/ ~d2.some \/ ~PolyIsZero(d2.r)
       THEN SelPanic
       ELSE SelOk(d1.q, SomePoly(d2.q))

SelReturnWitness ==
    /\ sel_pc = "scale"
    /\ sel_args.remainder_witness
    /\ scaled = DOMAIN poly
    /\ sel_result' = RemainderWitness(poly, sel_args)
    /\ h_i' = sel_result'.h_i
    /\ sel_pc' = "done"
    /\ UNCHANGED << sel_args, poly, scaled >>
    /\ UNCHANGED outside_sel

(***************************************************************************)
(* The test check_division_by_vanishing_poly_preserve_sparseness (lines    *)
(* 246-265): the evaluations val^k over the domain, zeroed on the points   *)
(* of the small domain, are interpolated and the polynomial is divided by  *)
(* the vanishing polynomial of the small domain.                           *)
(***************************************************************************)
\* The sum over the first k points of values[k] * g^(-j * (k - 1)).
RECURSIVE InterpolateSum(_, _, _, _)
InterpolateSum(values, domain, j, k) ==
    IF k = 0 THEN FZero
    ELSE FAdd(InterpolateSum(values, domain, j, k - 1),
              FMul(values[k],
                   FPow(FInv(GroupGen(domain.size)), (j * (k - 1)) % domain.size)))

\* Evaluations::interpolate: the polynomial of degree below the size of the
\* domain that takes the value values[k] at the k-th point of the domain.
Interpolate(values, domain) ==
    Trim([j \in 1..domain.size |->
             FMul(domain.size_inv, InterpolateSum(values, domain, j - 1, domain.size))])

\* Line 254: Fr::one().double().double().double() - Fr::one()
TestVal == FSub(FMul(2, FMul(2, FMul(2, FOne))), FOne)

\* Line 255
TestBuildEvals ==
    /\ test_pc = "build"
    /\ evals' = [k \in 1..test_args.size |-> FPow(test_args.val, k - 1)]
    /\ test_i' = 0
    /\ test_pc' = "zero"
    /\ UNCHANGED << test_args, test_poly, p_div_v, p_mod_v, test_result >>
    /\ UNCHANGED outside_test

\* Faulty variant of ZeroedIndex: the entries i, not the entries stride * i.
ZeroedIndexNoStride(i, stride) == i

\* Line 257: the index 4 * i, the stride 4 being the size of the domain over
\* the size of the small domain.
ZeroedIndex(i, stride) == stride * i

\* Lines 256-258: one iteration of the loop.
TestZeroEntry ==
    /\ test_pc = "zero"
    /\ test_i < test_args.small
    /\ evals' = [evals EXCEPT
                   ![ZeroedIndex(test_i, test_args.size \div test_args.small) + 1]
                       = FZero]
    /\ test_i' = test_i + 1
    /\ UNCHANGED << test_args, test_pc, test_poly, p_div_v, p_mod_v, test_result >>
    /\ UNCHANGED outside_test

\* Lines 259-260: the interpolation and the assertion on the degree.
TestInterpolate ==
    /\ test_pc = "zero"
    /\ test_i = test_args.small
    /\ test_poly' = Interpolate(evals, EvaluationDomain(test_args.size))
    /\ IF Degree(test_poly') = test_args.size - 1
       THEN /\ test_pc' = "divide"
            /\ UNCHANGED test_result
       ELSE /\ test_pc' = "done"
            /\ test_result' = "panic"
    /\ UNCHANGED << test_args, test_i, evals, p_div_v, p_mod_v >>
    /\ UNCHANGED outside_test

\* Lines 261-264: the division and the assertion on the remainder.
TestDivide ==
    /\ test_pc = "divide"
    /\ LET d == DivideByVanishingPoly(test_poly, EvaluationDomain(test_args.small))
       IN /\ p_div_v' = d.q
          /\ p_mod_v' = d.r
          /\ test_result' = IF d.some /\ PolyIsZero(d.r) THEN "passed" ELSE "panic"
    /\ test_pc' = "done"
    /\ UNCHANGED << test_args, test_i, evals, test_poly >>
    /\ UNCHANGED outside_test

(***************************************************************************)
(* The transaction store.  A map (ledger::map::Map, MemoryMap) holds its   *)
(* entries and, while an atomic batch is open, the writes of the batch in  *)
(* the order they were made: finish_atomic applies them, abort_atomic      *)
(* drops them.                                                             *)
(***************************************************************************)
\* The transactions: the ID, the type and the content.  The ID of a
\* transaction is the hash of its content.
Transactions ==
    { [id |-> 1, type |-> "Deploy", body |-> "deployment_1"],
      [id |-> 2, type |-> "Execute", body |-> "execution_2"],
      [id |-> 3, type |-> "Execute", body |-> "execution_3"] }

TransactionIDs == { t.id : t \in Transactions }

\* Option::Some
Some(v) == << v >>

\* MemoryMap::default()
EmptyMap == [ map |-> [k \in TransactionIDs |-> None],
              batch |-> <<>>,
              in_batch |-> FALSE ]

\* Map::start_atomic
MapStartAtomic(m) == [m EXCEPT !.in_batch = TRUE]

\* Map::insert: into the batch when one is open, into the map otherwise.
MapInsert(m, k, v) ==
    IF m.in_batch THEN [m EXCEPT !.batch = Append(@, <<k, Some(v)>>)]
    ELSE [m EXCEPT !.map[k] = Some(v)]

\* Map::remove: from the map when no batch is open, as a write of the batch
\* otherwise.
MapRemove(m, k) ==
    IF m.in_batch THEN [m EXCEPT !.batch = Append(@, <<k, None>>)]
    ELSE [m EXCEPT !.map[k] = None]

\* MapRead::get
MapGet(m, k) == m.map[k]

\* Map::abort_atomic: the writes of the batch are dropped.
MapAbortAtomic(m) == [m EXCEPT !.batch = <<>>, !.in_batch = FALSE]

\* The writes of a batch applied in order.
RECURSIVE ApplyBatch(_, _)
ApplyBatch(map, batch) ==
    IF batch = <<>> THEN map
    ELSE ApplyBatch([map EXCEPT ![Head(batch)[1]] = Head(batch)[2]], Tail(batch))

\* Map::finish_atomic: the writes of the batch are applied.
MapFinishAtomic(m) ==
    [ map |-> ApplyBatch(m.map, m.batch), batch |-> <<>>, in_batch |-> FALSE ]

\* The three maps and the log of the atomic operations made on them.
StoreState ==
    [ id_map |-> id_map,
      deployment_store |-> deployment_store,
      execution_store |-> execution_store,
      log |-> <<>> ]

\* Lines 74-78
StartAtomic(st) ==
    [ id_map |-> MapStartAtomic(st.id_map),
      deployment_store |-> MapStartAtomic(st.deployment_store),
      execution_store |-> MapStartAtomic(st.execution_store),
      log |-> st.log \o << <<"id_map", "start_atomic">>,
                           <<"deployment_store", "start_atomic">>,
                           <<"execution_store", "start_atomic">> >> ]

\* Lines 81-85
AbortAtomic(st) ==
    [ id_map |-> MapAbortAtomic(st.id_map),
      deployment_store |-> MapAbortAtomic(st.deployment_store),
      execution_store |-> MapAbortAtomic(st.execution_store),
      log |-> st.log \o << <<"id_map", "abort_atomic">>,
                           <<"deployment_store", "abort_atomic">>,
                           <<"execution_store", "abort_atomic">> >> ]

\* Lines 88-92
FinishAtomic(st) ==
    [ id_map |-> MapFinishAtomic(st.id_map),
      deployment_store |-> MapFinishAtomic(st.deployment_store),
      execution_store |-> MapFinishAtomic(st.execution_store),
      log |-> st.log \o << <<"id_map", "finish_atomic">>,
                           <<"deployment_store", "finish_atomic">>,
                           <<"execution_store", "finish_atomic">> >> ]

\* Faulty variant of Insert: a failed write to the deployment or execution
\* store returns the error and leaves the batch open.
InsertNoAbortOnStoreFailure(st, transaction, id_ok, store_ok) ==
    LET s1 == StartAtomic(st)
        s2 == [s1 EXCEPT !.id_map = MapInsert(@, transaction.id, transaction.type)]
        s3 == IF transaction.type = "Deploy"
              THEN [s2 EXCEPT !.deployment_store =
                                  MapInsert(@, transaction.id, transaction)]
              ELSE [s2 EXCEPT !.execution_store =
                                  MapInsert(@, transaction.id, transaction)]
    IN IF ~id_ok THEN [ok |-> FALSE, st |-> AbortAtomic(s1)]
       ELSE IF ~store_ok THEN [ok |-> FALSE, st |-> s2]
       ELSE [ok |-> TRUE, st |-> FinishAtomic(s3)]

\* Lines 95-118: TransactionStorage::insert.  id_ok and store_ok say whether
\* the write to the ID map and the write to the deployment or execution
\* store succeed.
Insert(st, transaction, id_ok, store_ok) ==
    LET s1 == StartAtomic(st)
        s2 == [s1 EXCEPT !.id_map = MapInsert(@, transaction.id, transaction.type)]
        s3 == IF transaction.type = "Deploy"
              THEN [s2 EXCEPT !.deployment_store =
                                  MapInsert(@, transaction.id, transaction)]
              ELSE [s2 EXCEPT !.execution_store =
                                  MapInsert(@, transaction.id, transaction)]
    IN IF ~id_ok THEN [ok |-> FALSE, st |-> AbortAtomic(s1)]
       ELSE IF ~store_ok THEN [ok |-> FALSE, st |-> AbortAtomic(s2)]
       ELSE [ok |-> TRUE, st |-> FinishAtomic(s3)]

\* Lines 121-149: TransactionStorage::remove.
Remove(st, transaction_id, id_ok, store_ok) ==
    LET transaction_type == MapGet(st.id_map, transaction_id)
        s1 == StartAtomic(st)
        s2 == [s1 EXCEPT !.id_map = MapRemove(@, transaction_id)]
        s3 == IF transaction_type = Some("Deploy")
              THEN [s2 EXCEPT !.deployment_store = MapRemove(@, transaction_id)]
              ELSE [s2 EXCEPT !.execution_store = MapRemove(@, transaction_id)]
    IN IF transaction_type = None THEN [ok |-> FALSE, st |-> st]
       ELSE IF ~id_ok THEN [ok |-> FALSE, st |-> AbortAtomic(s1)]
       ELSE IF ~store_ok THEN [ok |-> FALSE, st |-> AbortAtomic(s2)]
       ELSE [ok |-> TRUE, st |-> FinishAtomic(s3)]

\* Faulty variant of GetTransaction: the transaction is always looked up in the
\* deployment store.
GetTransactionFromDeployments(transaction_id) ==
    IF MapGet(id_map, transaction_id) = None THEN None
    ELSE MapGet(deployment_store, transaction_id)

\* Lines 162-175: TransactionStorage::get_transaction.
GetTransaction(transaction_id) ==
    LET transaction_type == MapGet(id_map, transaction_id)
    IN IF transaction_type = None THEN None
       ELSE IF transaction_type = Some("Deploy")
       THEN MapGet(deployment_store, transaction_id)
       ELSE MapGet(execution_store, transaction_id)

\* Lines 246-248: TransactionStore::insert.
StoreInsert(transaction, id_ok, store_ok) ==
    /\ LET r == Insert(StoreState, transaction, id_ok, store_ok)
       IN /\ id_map' = r.st.id_map
          /\ deployment_store' = r.st.deployment_store
          /\ execution_store' = r.st.execution_store
          /\ atomic_log' = r.st.log
          /\ store_call' = [op |-> "insert", id |-> transaction.id, ok |-> r.ok]
          /\ last_op' = IF r.ok THEN [last_op EXCEPT ![transaction.id] = "insert"]
                        ELSE last_op
    /\ UNCHANGED got
    /\ UNCHANGED outside_store

\* Lines 251-253: TransactionStore::remove.
StoreRemove(transaction_id, id_ok, store_ok) ==
    /\ LET r == Remove(StoreState, transaction_id, id_ok, store_ok)
       IN /\ id_map' = r.st.id_map
          /\ deployment_store' = r.st.deployment_store
          /\ execution_store' = r.st.execution_store
          /\ atomic_log' = r.st.log
          /\ store_call' = [op |-> "remove", id |-> transaction_id, ok |-> r.ok]
          /\ last_op' = IF r.ok THEN [last_op EXCEPT ![transaction_id] = "remove"]
                        ELSE last_op
    /\ UNCHANGED got
    /\ UNCHANGED outside_store

\* Lines 278-280: TransactionStore::get_transaction.
StoreGet(transaction_id) ==
    /\ got' = GetTransaction(transaction_id)
    /\ store_call' = [op |-> "get_transaction", id |-> transaction_id, ok |-> TRUE]
    /\ atomic_log' = <<>>
    /\ UNCHANGED << id_map, deployment_store, execution_store, last_op >>
    /\ UNCHANGED outside_store

(***************************************************************************)
(* The calls of apply_randomized_selector: the pair of domains, the        *)
(* combiner, the mode, and the polynomial q * v_H_i + r.                   *)
(***************************************************************************)
\* The pairs (size of H, size of H_i); a domain of size 0 is degenerate: its
\* vanishing polynomial is the zero polynomial.
DomainPairs == { <<4, 2>>, <<16, 4>>, <<4, 0>> }

Combiners == {0, 3}

Quotients == { <<>>, <<2>>, <<1, 5>> }

Remainders == { <<>>, <<3>>, <<0, 1>> }

SelArgs ==
    { [ combiner |-> c,
        target_domain |-> EvaluationDomain(d[1]),
        src_domain |-> EvaluationDomain(d[2]),
        remainder_witness |-> w,
        poly |-> PolyAdd(MulByVanishingPoly(q, EvaluationDomain(d[2])), r) ] :
        c \in Combiners, d \in DomainPairs, w \in BOOLEAN,
        q \in Quotients, r \in Remainders }

\* No call of init_prover is under way.
ProverIdle ==
    /\ circuits_to_constraints = <<>>
    /\ zk = FALSE
    /\ rng = [seed |-> 0, pos |-> 0]
    /\ draws = <<>>
    /\ randomizing_assignments = <<>>
    /\ pc = "idle"
    /\ ci = 0
    /\ slots = <<>>
    /\ saved_error = NoError
    /\ indices_and_assignments = <<>>
    /\ result = NoResult

\* No call of apply_randomized_selector is under way.
SelIdle ==
    /\ sel_args = [ combiner |-> FZero,
                    target_domain |-> EvaluationDomain(1),
                    src_domain |-> EvaluationDomain(1),
                    remainder_witness |-> FALSE,
                    poly |-> <<>> ]
    /\ poly = <<>>
    /\ h_i = <<>>
    /\ scaled = {}
    /\ sel_pc = "idle"
    /\ sel_result = SelNoResult

\* No run of the closure is under way.
TaskIdle ==
    /\ task_args = [ id |-> 0, zk |-> FALSE, instance |-> <<>>,
                     rand_assignments |-> None, admissible |-> TRUE ]
    /\ task_pc = "idle"
    /\ pcs = NoSink
    /\ checks = <<>>
    /\ task_out = Pending

\* No run of the test is under way.
TestIdle ==
    /\ test_args = [val |-> FZero, size |-> 1, small |-> 1]
    /\ test_pc = "idle"
    /\ test_i = 0
    /\ evals = <<>>
    /\ test_poly = <<>>
    /\ p_div_v = <<>>
    /\ p_mod_v = <<>>
    /\ test_result = "none"

\* Lines 197-204 and 233-238: the store as open() returns it, and no call
\* made yet.
StoreOpen ==
    /\ id_map = EmptyMap
    /\ deployment_store = EmptyMap
    /\ execution_store = EmptyMap
    /\ store_call = [op |-> "open", id |-> 0, ok |-> TRUE]
    /\ atomic_log = <<>>
    /\ last_op = [k \in TransactionIDs |-> "none"]
    /\ got = None

\* A call of init_prover.
Init ==
    /\ circuits_to_constraints \in Batches
    /\ zk \in BOOLEAN
    /\ rng \in [seed : Seeds, pos : {0}]
    /\ draws = <<>>
    /\ randomizing_assignments = <<>>
    /\ pc = "sample"
    /\ ci = 0
    /\ slots = <<>>
    /\ saved_error = NoError
    /\ indices_and_assignments = <<>>
    /\ result = NoResult
    /\ SelIdle
    /\ TaskIdle
    /\ TestIdle
    /\ StoreOpen

\* A call of apply_randomized_selector.
SelInit ==
    /\ ProverIdle
    /\ sel_args \in SelArgs
    /\ poly = sel_args.poly
    /\ h_i = <<>>
    /\ scaled = {}
    /\ sel_pc = IF sel_args.remainder_witness THEN "scale" ELSE "divide"
    /\ sel_result = SelNoResult
    /\ TaskIdle
    /\ TestIdle
    /\ StoreOpen

\* The triples the runs of the closure are given in zero-knowledge mode.
Triples == { <<2, 3, 6>>, <<4, 5, 3>> }

\* A run of the closure of lines 80-158.
TaskInit ==
    /\ ProverIdle
    /\ SelIdle
    /\ task_args \in
          { [ id |-> id, zk |-> mode, instance |-> instance,
              rand_assignments |-> t, admissible |-> verdict ] :
              id \in CircuitIds, mode \in BOOLEAN, instance \in Instances,
              t \in Triples \cup {None}, verdict \in BOOLEAN }
    /\ task_args.zk <=> task_args.rand_assignments # None
    /\ task_pc = "synthesize"
    /\ pcs = NoSink
    /\ checks = <<>>
    /\ task_out = Pending
    /\ TestIdle
    /\ StoreOpen

Next ==
    \/ SampleCircuit
    \/ BeginBuild
    \/ \E k \in 1..(MaxInstances + 1) : RunInstance(k)
    \/ CollectCircuit
    \/ Initialize

Spec == Init /\ [][Next]_vars

SelNext ==
    \/ SelDivide
    \/ \E j \in DOMAIN poly \cup DOMAIN h_i : SelScale(j)
    \/ SelReturnQuotient
    \/ SelReturnWitness

\* The calls of apply_randomized_selector alone.
SelSpec == SelInit /\ [][SelNext]_vars

\* The calls of init_prover and of apply_randomized_selector.
BothSpec == (Init \/ SelInit) /\ [][Next \/ SelNext]_vars

TaskNext ==
    \/ TaskSynthesize
    \/ TaskPad
    \/ TaskCheckIndex
    \/ TaskCheckAdmissible
    \/ TaskProducts

\* The runs of the closure of lines 80-158 alone.
TaskSpec == TaskInit /\ [][TaskNext]_vars

\* The sizes of domain and small_domain: those of the test, and a smaller pair.
TestDomains == { <<16, 4>>, <<4, 2>> }

\* A run of the test, on val (7 in the test) or on another element of the
\* field other than zero.
TestInit ==
    /\ ProverIdle
    /\ SelIdle
    /\ TaskIdle
    /\ test_args \in { [val |-> v, size |-> d[1], small |-> d[2]] :
                          v \in 1..(P - 1), d \in TestDomains }
    /\ test_pc = "build"
    /\ test_i = 0
    /\ evals = <<>>
    /\ test_poly = <<>>
    /\ p_div_v = <<>>
    /\ p_mod_v = <<>>
    /\ test_result = "none"
    /\ StoreOpen

TestNext ==
    \/ TestBuildEvals
    \/ TestZeroEntry
    \/ TestInterpolate
    \/ TestDivide

\* The runs of the test alone.
TestSpec == TestInit /\ [][TestNext]_vars

\* The transaction store after open().
StoreInit ==
    /\ ProverIdle
    /\ SelIdle
    /\ TaskIdle
    /\ TestIdle
    /\ StoreOpen

StoreNext ==
    \/ \E transaction \in Transactions, id_ok \in BOOLEAN, store_ok \in BOOLEAN :
          StoreInsert(transaction, id_ok, store_ok)
    \/ \E transaction_id \in TransactionIDs, id_ok \in BOOLEAN, store_ok \in BOOLEAN :
          StoreRemove(transaction_id, id_ok, store_ok)
    \/ \E transaction_id \in TransactionIDs : StoreGet(transaction_id)

\* The calls of the transaction store alone.
StoreSpec == StoreInit /\ [][StoreNext]_vars

(***************************************************************************)
(* Definitions the properties share.                                       *)
(***************************************************************************)
\* The number of instances of entry i of the input map.
NumInstances(i) == Len(circuits_to_constraints[i].constraints)

\* The number of instances of the entries before entry i.
RECURSIVE InstancesBefore(_)
InstancesBefore(i) ==
    IF i <= 1 THEN 0 ELSE NumInstances(i - 1) + InstancesBefore(i - 1)

\* All the pairs (entry, instance) of the input map.
AllPairs ==
    { p \in (1..NumCircuits) \X (1..MaxInstances) : p[2] <= NumInstances(p[1]) }

\* The instances of the circuit at ci whose task has run.
Ran == { k \in DOMAIN slots : slots[k] # Pending }

\* The sink of instance k of entry i after synthesis, injection and padding.
Snapshot(i, k) ==
    SynthesizeAndPad(circuits_to_constraints[i].constraints[k],
                     randomizing_assignments[i][k], zk)

IndexInfo(i) == Circuit(circuits_to_constraints[i].id, zk).index_info

\* Every Assignments init_prover has returned, with the entry it belongs to.
Returned ==
    IF result.tag # "ok" THEN {}
    ELSE UNION { { << i, result.state[i].assignments[k] >> :
                     k \in DOMAIN result.state[i].assignments } :
                 i \in DOMAIN result.state }

(***************************************************************************)
(* C1.  init_prover is all-or-nothing: when the witness construction of    *)
(* any (circuit, instance) pair of the batch fails, init_prover returns an *)
(* error and no ProverState.                                               *)
(***************************************************************************)
SomeInstanceFails ==
    \E p \in AllPairs :
        TaskOutcome(circuits_to_constraints, randomizing_assignments,
                    p[1], p[2], zk).tag = "err"

C1_AllOrNothing ==
    (pc = "done" /\ SomeInstanceFails) =>
        (result.tag = "err" /\ result.state = NoState)

\* init_prover has failed although an instance of the failing circuit, and an
\* earlier circuit, were built.
C1_Witness ==
    /\ pc = "done"
    /\ result.tag = "err"
    /\ \E k \in DOMAIN slots : slots[k].tag = "ok"
    /\ indices_and_assignments # <<>>

(***************************************************************************)
(* C2.  An instance whose realized counts, after injection and padding,    *)
(* differ from the circuit index (the constraint count, the public or the  *)
(* private variable count) yields InstanceDoesNotMatchIndex: its task      *)
(* neither panics nor returns vectors.                                     *)
(***************************************************************************)
CountsDiffer(i, k) ==
    LET s == Snapshot(i, k)
    IN /\ s.ok
       /\ \/ s.pcs.num_constraints # IndexInfo(i).num_constraints
          \/ s.pcs.num_public_variables # IndexInfo(i).num_public_variables
          \/ s.pcs.num_private_variables # IndexInfo(i).num_private_variables

C2_MismatchRaises ==
    \A k \in Ran :
        CountsDiffer(ci, k) => slots[k] = Err("InstanceDoesNotMatchIndex")

(***************************************************************************)
(* C3.  In every Assignments of a returned ProverState the public vector   *)
(* has the index's num_public_variables entries and the private vector the *)
(* index's num_private_variables entries, each on its own.                 *)
(***************************************************************************)
C3_LengthsMatchIndex ==
    \A r \in Returned :
        /\ Len(r[2].public) = IndexInfo(r[1]).num_public_variables
        /\ Len(r[2].private) = IndexInfo(r[1]).num_private_variables

(***************************************************************************)
(* C4.  Entry 0 of the padded public vector of every Assignments that      *)
(* init_prover produces is the multiplicative identity of the field.       *)
(***************************************************************************)
C4_PublicZeroIsOne ==
    /\ \A k \in Ran : slots[k].tag = "ok" => slots[k].val.public[1] = FOne
    /\ \A r \in Returned : r[2].public[1] = FOne

\* A ProverState was returned that holds a public vector padded with a zero.
C4_Witness ==
    \E r \in Returned :
        /\ Len(r[2].public) = 4
        /\ r[2].public[4] = FZero
        /\ r[2].public[1] = FOne

(***************************************************************************)
(* C5.  In zero-knowledge mode every instance of every circuit has exactly *)
(* one triple (a, b, c) with c = a * b, and the triple injected into an    *)
(* instance's sink is that instance's own; without zero-knowledge no       *)
(* instance has a triple and nothing is injected.                          *)
(***************************************************************************)
IsTriple(t) == Len(t) = 3 /\ t[3] = FMul(t[1], t[2])

\* Once the sampling loop is over: one entry per instance, a triple or None.
OneTriplePerInstance ==
    /\ Len(randomizing_assignments) = NumCircuits
    /\ \A i \in 1..NumCircuits :
          /\ Len(randomizing_assignments[i]) = NumInstances(i)
          /\ \A k \in 1..NumInstances(i) :
                IF zk THEN IsTriple(randomizing_assignments[i][k])
                ELSE randomizing_assignments[i][k] = None

\* The private vector of a built instance: its own variables, followed in
\* zero-knowledge mode by its own triple and by nothing else.
OwnTripleInjected ==
    \A k \in Ran :
        slots[k].tag = "ok" =>
            slots[k].val.private =
                circuits_to_constraints[ci].constraints[k].aux
                    \o (IF zk THEN randomizing_assignments[ci][k] ELSE <<>>)

C5_OneTriplePerInstance ==
    /\ pc # "sample" => OneTriplePerInstance
    /\ OwnTripleInjected

\* Zero-knowledge mode: two instances of a circuit were built, with two
\* different triples.
C5_Witness ==
    /\ zk
    /\ pc = "build"
    /\ \E k \in Ran : \E j \in Ran :
          /\ k # j
          /\ slots[k].tag = "ok"
          /\ slots[j].tag = "ok"
          /\ randomizing_assignments[ci][k] # randomizing_assignments[ci][j]

(***************************************************************************)
(* C6.  With zero-knowledge disabled no step of init_prover changes the    *)
(* state of the entropy source, whether the call succeeds or fails.        *)
(***************************************************************************)
C6_NoDrawWithoutZk == [][~zk => rng' = rng]_vars

\* Without zero-knowledge, a call over two circuits and at least two instances
\* has failed and left the source as it was.
C6_Witness ==
    /\ ~zk
    /\ pc = "done"
    /\ result.tag = "err"
    /\ NumCircuits = 2
    /\ NumInstances(1) + NumInstances(2) >= 2
    /\ rng.pos = 0

(***************************************************************************)
(* C7.  In zero-knowledge mode the draws are made in a fixed order: the    *)
(* circuits in key order, the instances of a circuit in list order, a      *)
(* before b; and an instance's draws are made before its task runs,        *)
(* however the tasks are scheduled.                                        *)
(***************************************************************************)
\* The entry of the map that holds the q-th instance of the batch.
EntryOf(q) ==
    CHOOSE i \in 1..NumCircuits :
        InstancesBefore(i) < q /\ q <= InstancesBefore(i) + NumInstances(i)

\* The j-th draw of the fixed order.
ExpectedDraw(j) ==
    LET q == (j + 1) \div 2
        i == EntryOf(q)
    IN [ circuit |-> circuits_to_constraints[i].id,
         instance |-> q - InstancesBefore(i),
         draw |-> IF j % 2 = 1 THEN "a" ELSE "b",
         pos |-> j - 1 ]

ExpectedDraws ==
    [j \in 1..(2 * InstancesBefore(NumCircuits + 1)) |-> ExpectedDraw(j)]

C7_DrawOrder ==
    /\ \A j \in DOMAIN draws : draws[j] = ExpectedDraw(j)
    /\ (zk /\ pc # "sample") => draws = ExpectedDraws
    /\ \A k \in Ran :
          zk => \E j \in DOMAIN draws :
                   /\ j + 1 \in DOMAIN draws
                   /\ draws[j].circuit = circuits_to_constraints[ci].id
                   /\ draws[j].instance = k
                   /\ draws[j].draw = "a"
                   /\ draws[j + 1].circuit = circuits_to_constraints[ci].id
                   /\ draws[j + 1].instance = k
                   /\ draws[j + 1].draw = "b"

\* Zero-knowledge mode, two circuits: the second instance of the second
\* circuit ran before the first, after all the draws.
C7_Witness ==
    /\ zk
    /\ pc = "build"
    /\ ci = 2
    /\ Len(draws) = 6
    /\ DOMAIN slots = 1..2
    /\ slots[1] = Pending
    /\ slots[2] # Pending

(***************************************************************************)
(* C8.  Determinism: the outcome of every instance, and the ProverState    *)
(* returned, are functions of the input map, the mode and the seed of the  *)
(* entropy source alone, so two runs on the same input and seed agree on   *)
(* every Assignments; and what apply_randomized_selector returns is a      *)
(* function of its polynomial, combiner, domains and mode alone, however   *)
(* the tasks of its parallel for_each are scheduled.                       *)
(***************************************************************************)
\* The triple of instance k of entry i, from the seed and the place of the
\* instance in the batch.
ExpectedTriple(i, k) ==
    LET off == 2 * (InstancesBefore(i) + k - 1)
        a == FRandValue([seed |-> rng.seed, pos |-> off])
        b == FRandValue([seed |-> rng.seed, pos |-> off + 1])
    IN IF zk THEN <<a, b, FMul(a, b)>> ELSE None

ExpectedOutcome(i, k) ==
    BuildAssignments(Circuit(circuits_to_constraints[i].id, zk),
                     circuits_to_constraints[i].constraints[k],
                     ExpectedTriple(i, k), zk)

ExpectedState ==
    [i \in 1..NumCircuits |->
        [ id |-> circuits_to_constraints[i].id,
          assignments |-> [k \in 1..NumInstances(i) |-> ExpectedOutcome(i, k).val] ]]

\* What apply_randomized_selector returns, from its arguments alone, with
\* every coefficient scaled at once.
ScalePoly(p, multiplier) == [j \in DOMAIN p |-> FMul(p[j], multiplier)]

SelectorOutput(args) ==
    IF args.remainder_witness
    THEN RemainderWitness(ScalePoly(args.poly, Multiplier(args)), args)
    ELSE LET d == DivideByVanishingPoly(args.poly, args.src_domain)
         IN IF ~d.some THEN SelErr("could not divide by vanishing poly")
            ELSE IF ~PolyIsZero(d.r) THEN SelPanic
            ELSE SelOk(ScalePoly(d.q, Multiplier(args)), NoPoly)

C8_Deterministic ==
    /\ \A k \in Ran : slots[k] = ExpectedOutcome(ci, k)
    /\ result.tag = "ok" => result.state = ExpectedState
    /\ sel_pc = "done" => sel_result = SelectorOutput(sel_args)

\* Zero-knowledge mode: a ProverState with two Assignments of one circuit,
\* built from different triples, was returned.
C8_Witness ==
    /\ zk
    /\ result.tag = "ok"
    /\ \E i \in DOMAIN result.state :
          /\ Len(result.state[i].assignments) >= 2
          /\ ExpectedTriple(i, 1) # ExpectedTriple(i, 2)

(***************************************************************************)
(* C9.  What init_prover returns, a ProverState or an error, is what the   *)
(* fully sequential evaluation returns, under every interleaving of the    *)
(* tasks, also when more than one instance fails.                          *)
(***************************************************************************)
\* The circuit's collect of line 159 when the instances are evaluated in list
\* order (cfg_iter! under the feature "serial"): the first failure is returned.
SeqCollect(i) ==
    LET outcomes == [k \in 1..NumInstances(i) |->
                        TaskOutcome(circuits_to_constraints,
                                    randomizing_assignments, i, k, zk)]
        bad == { k \in DOMAIN outcomes : outcomes[k].tag # "ok" }
    IN IF bad = {} THEN Ok([k \in DOMAIN outcomes |-> outcomes[k].val])
       ELSE outcomes[Min(bad)]

\* init_prover evaluated sequentially: the first failing circuit ends it.
SeqInitProver ==
    LET bad == { i \in 1..NumCircuits : SeqCollect(i).tag # "ok" }
    IN IF bad = {}
       THEN StateInitialize([i \in 1..NumCircuits |->
                                [ id |-> circuits_to_constraints[i].id,
                                  assignments |-> SeqCollect(i).val ]])
       ELSE [ tag |-> SeqCollect(Min(bad)).tag,
              err |-> SeqCollect(Min(bad)).err,
              state |-> NoState ]

C9_SameAsSequential == pc = "done" => result = SeqInitProver

(***************************************************************************)
(* C10.  A returned ProverState holds the circuits of the input map, in    *)
(* the map's key order, each with one Assignments per instance, the k-th   *)
(* built from the circuit's k-th instance and k-th triple.                 *)
(***************************************************************************)
C10_StateMatchesInput ==
    result.tag = "ok" =>
        /\ Len(result.state) = NumCircuits
        /\ \A i \in 1..NumCircuits :
              /\ result.state[i].id = circuits_to_constraints[i].id
              /\ \A j \in 1..NumCircuits : i < j => result.state[i].id < result.state[j].id
              /\ Len(result.state[i].assignments) = NumInstances(i)
              /\ \A k \in 1..NumInstances(i) :
                    Ok(result.state[i].assignments[k]) =
                        BuildAssignments(
                            Circuit(circuits_to_constraints[i].id, zk),
                            circuits_to_constraints[i].constraints[k],
                            randomizing_assignments[i][k], zk)

\* A ProverState over two circuits was returned, the first with two different
\* instances.
C10_Witness ==
    /\ result.tag = "ok"
    /\ Len(result.state) = 2
    /\ Len(result.state[1].assignments) = 2
    /\ result.state[1].assignments[1] # result.state[1].assignments[2]
    /\ Len(result.state[2].assignments) = 1

(***************************************************************************)
(* C11.  For every matrix X of A, B, C and every row k, z_X[k] is the sum  *)
(* over the pairs (coefficient, column) of the row of the coefficient      *)
(* times the entry at that column of the concatenation of the public and   *)
(* the private vector, every term computed with the generic multiply: the  *)
(* shortcut for a coefficient equal to one changes nothing.                *)
(***************************************************************************)
\* The dense recomputation of a row against the witness w, without shortcut.
RECURSIVE DenseRowProduct(_, _)
DenseRowProduct(row, w) ==
    IF row = <<>> THEN 0
    ELSE (Head(row)[1] * w[Head(row)[2] + 1] + DenseRowProduct(Tail(row), w)) % P

ProductsAreDense(circuit, assignments) ==
    LET w == assignments.public \o assignments.private
    IN /\ Len(assignments.z_a) = Len(circuit.a)
       /\ Len(assignments.z_b) = Len(circuit.b)
       /\ Len(assignments.z_c) = Len(circuit.c)
       /\ \A k \in DOMAIN circuit.a :
             assignments.z_a[k] = DenseRowProduct(circuit.a[k], w)
       /\ \A k \in DOMAIN circuit.b :
             assignments.z_b[k] = DenseRowProduct(circuit.b[k], w)
       /\ \A k \in DOMAIN circuit.c :
             assignments.z_c[k] = DenseRowProduct(circuit.c[k], w)

C11_ProductsAreDense ==
    task_out.tag = "ok" =>
        ProductsAreDense(Circuit(task_args.id, task_args.zk), task_out.val)

\* An Assignments was built from a row that holds a coefficient equal to one
\* on a variable other than zero and one, and a coefficient other than one on
\* a variable other than zero.
C11_Witness ==
    /\ task_out.tag = "ok"
    /\ LET w == task_out.val.public \o task_out.val.private
           c == Circuit(task_args.id, task_args.zk).c
       IN \E k \in DOMAIN c :
             /\ \E j \in DOMAIN c[k] : c[k][j][1] = FOne /\ w[c[k][j][2] + 1] > 1
             /\ \E j \in DOMAIN c[k] : c[k][j][1] # FOne /\ w[c[k][j][2] + 1] # 0

(***************************************************************************)
(* C12.  When the constraint generation of an instance fails, the          *)
(* instance's task returns that failure unchanged, the sink is left as the *)
(* failed synthesis left it (no triple injected, no padding) and no        *)
(* Assignments is produced; init_prover returns the failure of a task      *)
(* unchanged, so a batch whose only failures are synthesis failures makes  *)
(* it return the synthesis failure.                                        *)
(***************************************************************************)
SynthesisFails(i, k) == circuits_to_constraints[i].constraints[k].fail # NoError

\* The errors of the tasks of the batch that fail.
TaskErrors ==
    { TaskOutcome(circuits_to_constraints, randomizing_assignments,
                  p[1], p[2], zk).err :
        p \in { q \in AllPairs :
                  TaskOutcome(circuits_to_constraints, randomizing_assignments,
                              q[1], q[2], zk).tag = "err" } }

SynthesisErrors ==
    { circuits_to_constraints[p[1]].constraints[p[2]].fail :
        p \in { q \in AllPairs : SynthesisFails(q[1], q[2]) } }

AllChecks == << "synthesis", "counts", "admissibility" >>

\* The sink of the run after synthesis, injection and padding.
TaskSnapshot ==
    SynthesizeAndPad(task_args.instance, task_args.rand_assignments, task_args.zk)

TaskCountsMatch ==
    InstanceMatchesIndex(Circuit(task_args.id, task_args.zk), TaskSnapshot.pcs)

C18_ChecksInOrder ==
    /\ checks = SubSeq(AllChecks, 1, Len(checks))
    /\ task_pc = "products" => checks = AllChecks
    /\ task_out.tag = "ok" => checks = AllChecks
    /\ task_pc = "done" =>
          /\ ~TaskSnapshot.ok =>
                task_out = Err(task_args.instance.fail) /\ checks = <<"synthesis">>
          /\ (TaskSnapshot.ok /\ ~TaskCountsMatch) =>
                /\ task_out = Err("InstanceDoesNotMatchIndex")
                /\ checks = <<"synthesis", "counts">>
          /\ (TaskSnapshot.ok /\ TaskCountsMatch /\ ~task_args.admissible) =>
                /\ task_out = Err("InadmissiblePublicInput")
                /\ checks = AllChecks
          /\ (TaskSnapshot.ok /\ TaskCountsMatch /\ task_args.admissible) =>
                task_out.tag = "ok"
          /\ task_args.admissible
                = FormattedPublicInputIsAdmissible(TaskSnapshot.pcs.public_variables)
             => task_out = BuildAssignments(Circuit(task_args.id, task_args.zk),
                                            task_args.instance,
                                            task_args.rand_assignments, task_args.zk)

\* A run whose counts differ from the index and whose public input is
\* inadmissible has returned InstanceDoesNotMatchIndex.
C18_Witness ==
    /\ task_pc = "done"
    /\ TaskSnapshot.ok
    /\ ~TaskCountsMatch
    /\ ~task_args.admissible
    /\ task_out = Err("InstanceDoesNotMatchIndex")

(***************************************************************************)
(* Definitions the properties of apply_randomized_selector share.          *)
(***************************************************************************)
\* The polynomial is zero on every point of the domain.
VanishesOn(p, domain) ==
    \A k \in 1..domain.size : Evaluate(p, Elements(domain)[k]) = FZero

IsPowerOfTwo(n) == n >= 1 /\ NextPowerOfTwo(n, 1) = n

\* The call is made with a pair of power-of-two domains, the size of H_i
\* dividing the size of H.
ValidDomains(args) ==
    /\ IsPowerOfTwo(args.target_domain.size)
    /\ IsPowerOfTwo(args.src_domain.size)
    /\ args.target_domain.size % args.src_domain.size = 0

\* p is the polynomial q with every coefficient multiplied by
\* c_i * |H_i| * |H|^{-1}, stated without the inverse.
IsScaled(p, q, args) ==
    /\ Len(p) = Len(q)
    /\ \A j \in DOMAIN q :
          FMul(p[j], args.target_domain.size % P)
             = FMul(FMul(args.combiner, args.src_domain.size % P), q[j])

\* The input polynomial multiplied by c_i * |H_i| * |H|^{-1}.
ScaledInput(args) ==
    [j \in DOMAIN args.poly |->
        CHOOSE x \in 0..(P - 1) :
            FMul(x, args.target_domain.size % P)
               = FMul(FMul(args.combiner, args.src_domain.size % P), args.poly[j])]

(***************************************************************************)
(* C13.  Without remainder witness, for a polynomial that is zero on every *)
(* point of H_i, apply_randomized_selector returns (q', none), q' being    *)
(* the quotient of the polynomial by the vanishing polynomial of H_i with  *)
(* every coefficient multiplied by c_i * |H_i| * |H|^{-1}.                 *)
(***************************************************************************)
C13_ScaledQuotient ==
    ( /\ sel_pc = "done"
      /\ ~sel_args.remainder_witness
      /\ ValidDomains(sel_args)
      /\ VanishesOn(sel_args.poly, sel_args.src_domain) ) =>
        LET d == DivideByVanishingPoly(sel_args.poly, sel_args.src_domain)
        IN /\ PolyIsZero(d.r)
           /\ MulByVanishingPoly(d.q, sel_args.src_domain) = Trim(sel_args.poly)
           /\ sel_result.tag = "ok"
           /\ sel_result.xg_i = NoPoly
           /\ IsScaled(sel_result.h_i, d.q, sel_args)

\* H of size 4 and H_i of size 2: the scaled quotient of a polynomial of
\* degree 3 that is zero on H_i was returned.
C13_Witness ==
    /\ sel_pc = "done"
    /\ ~sel_args.remainder_witness
    /\ sel_args.target_domain.size = 4
    /\ sel_args.src_domain.size = 2
    /\ sel_args.combiner # FZero
    /\ Degree(sel_args.poly) = 3
    /\ VanishesOn(sel_args.poly, sel_args.src_domain)
    /\ sel_result.tag = "ok"
    /\ Degree(sel_result.h_i) = 1
    /\ sel_result.h_i # DivideByVanishingPoly(sel_args.poly, sel_args.src_domain).q

(***************************************************************************)
(* C14.  With remainder witness, for H of size 16, H_i of size 4 and a     *)
(* polynomial that is not zero on H_i, apply_randomized_selector returns   *)
(* (h_i, some(x_g_i)) with h_i * v_H + x_g_i == (scaled polynomial) /      *)
(* v_H_i, the scaled polynomial being the input multiplied by              *)
(* c_i * |H_i| * |H|^{-1}.  The identity is stated with the denominator    *)
(* cleared: (h_i * v_H + x_g_i) * v_H_i == scaled polynomial.              *)
(***************************************************************************)
C14Case ==
    /\ sel_pc = "done"
    /\ sel_args.remainder_witness
    /\ sel_args.target_domain.size = 16
    /\ sel_args.src_domain.size = 4
    /\ ~VanishesOn(sel_args.poly, sel_args.src_domain)

\* h_i * v_H + x_g_i, of the returned pair.
Recombined ==
    PolyAdd(MulByVanishingPoly(sel_result.h_i, sel_args.target_domain),
            sel_result.xg_i.poly)

C15_DegenerateIsFatal ==
    (sel_pc = "done" /\ sel_args.src_domain.size = 0) => sel_result.tag = "panic"

(***************************************************************************)
(* C19.  With remainder witness, for every polynomial and every pair of    *)
(* power-of-two domains with |H_i| dividing |H|, the second division (of   *)
(* the first remainder times v_H, by v_H_i) leaves no remainder, so the    *)
(* assertion on it holds and the call returns; the x_g_i returned is the   *)
(* first remainder multiplied by v_H / v_H_i.                              *)
(***************************************************************************)
C19_SecondRemainderIsZero ==
    ( /\ sel_pc = "done"
      /\ sel_args.remainder_witness
      /\ ValidDomains(sel_args) ) =>
        LET d1 == DivideByVanishingPoly(ScaledInput(sel_args), sel_args.src_domain)
            product == MulByVanishingPoly(d1.r, sel_args.target_domain)
        IN /\ PolyIsZero(DivideByVanishingPoly(product, sel_args.src_domain).r)
           /\ sel_result.tag = "ok"
           /\ sel_result.h_i = d1.q
           /\ sel_result.xg_i.some
           /\ MulByVanishingPoly(sel_result.xg_i.poly, sel_args.src_domain) = product

\* H of size 4, H_i of size 2: a first remainder of degree 1 gave an x_g_i of
\* degree 3.
C19_Witness ==
    /\ sel_pc = "done"
    /\ sel_args.remainder_witness
    /\ sel_args.target_domain.size = 4
    /\ sel_args.src_domain.size = 2
    /\ Degree(DivideByVanishingPoly(poly, sel_args.src_domain).r) = 1
    /\ sel_result.tag = "ok"
    /\ Degree(sel_result.xg_i.poly) = 3

(***************************************************************************)
(* C20.  apply_randomized_selector leaves the caller's polynomial as it    *)
(* was passed, without and with remainder witness.                         *)
(***************************************************************************)
C20_PolyUnchanged ==
    (sel_pc = "done" /\ ValidDomains(sel_args)) => poly = sel_args.poly

(***************************************************************************)
(* C20, amended.  Without remainder witness the caller's polynomial is     *)
(* never changed; with remainder witness it holds, after the call, the     *)
(* polynomial passed with every coefficient multiplied by                  *)
(* c_i * |H_i| * |H|^{-1}.                                                 *)
(***************************************************************************)
C20_PolyScaledInPlace ==
    /\ ~sel_args.remainder_witness => poly = sel_args.poly
    /\ (sel_pc = "done" /\ sel_args.remainder_witness /\ ValidDomains(sel_args)) =>
          IsScaled(poly, sel_args.poly, sel_args)

\* With remainder witness the call has returned and the caller's polynomial
\* is no longer the one passed.
C20_Witness ==
    /\ sel_pc = "done"
    /\ sel_args.remainder_witness
    /\ ValidDomains(sel_args)
    /\ sel_result.tag = "ok"
    /\ poly # sel_args.poly

(***************************************************************************)
(* C16.  The polynomial interpolated over a domain H of size 16 from the   *)
(* evaluations v^k (v = 2^3 - 1, k from 0 to 15) with every fourth entry   *)
(* set to zero has degree 15, and its division by the vanishing polynomial *)
(* of the sub-domain H_i of size 4 leaves no remainder and a quotient of   *)
(* degree 11; in general a polynomial that is zero on every point of H_i   *)
(* divides by v_H_i with no remainder and the degree of the quotient is    *)
(* the degree of the polynomial minus |H_i|.                               *)
(***************************************************************************)
TestScenario == test_args = [val |-> TestVal, size |-> 16, small |-> 4]

Interpolated == test_pc = "divide" \/ (test_pc = "done" /\ test_poly # <<>>)

C16_DivisionOfVanishing ==
    /\ (TestScenario /\ Interpolated) =>
          /\ Degree(test_poly) = 15
          /\ \A k \in 1..16 :
                Evaluate(test_poly, Elements(EvaluationDomain(16))[k])
                   = IF (k - 1) % 4 = 0 THEN FZero ELSE FPow(TestVal, k - 1)
    /\ (TestScenario /\ test_pc = "done") =>
          /\ test_result = "passed"
          /\ PolyIsZero(p_mod_v)
          /\ Degree(p_div_v) = 11
    /\ ( /\ Interpolated
         /\ ~PolyIsZero(test_poly)
         /\ VanishesOn(test_poly, EvaluationDomain(test_args.small)) ) =>
          LET d == DivideByVanishingPoly(test_poly, EvaluationDomain(test_args.small))
          IN /\ d.some
             /\ PolyIsZero(d.r)
             /\ Degree(d.q) = Degree(test_poly) - test_args.small
             /\ MulByVanishingPoly(d.q, EvaluationDomain(test_args.small)) = test_poly
             /\ test_result = "passed" => (p_div_v = d.q /\ p_mod_v = d.r)

\* The test has passed on val = 7, a domain of size 16 and a small domain of
\* size 4, with a quotient of degree 11.
C16_Witness ==
    /\ TestScenario
    /\ test_args.val = 7
    /\ test_pc = "done"
    /\ test_result = "passed"
    /\ Degree(test_poly) = 15
    /\ Degree(p_div_v) = 11


(***************************************************************************)
(* The transaction store: what get_transaction returns.                    *)
(***************************************************************************)
\* The transaction with the given ID.
TransactionOf(transaction_id) == CHOOSE t \in Transactions : t.id = transaction_id

\* C17: after any sequence of insert and remove calls, get_transaction(id)
\* returns the inserted transaction if the last insert or remove of id that
\* succeeded was an insert, read from the deployment or the execution store by
\* the type the ID map records, and returns none if id was never inserted or
\* was last removed; the last call of get_transaction returned just that.
C17_GetAfterInsertRemove ==
    /\ \A k \in TransactionIDs :
          IF last_op[k] = "insert"
          THEN /\ GetTransaction(k) = Some(TransactionOf(k))
               /\ MapGet(id_map, k) = Some(TransactionOf(k).type)
               /\ TransactionOf(k).type = "Deploy" =>
                     MapGet(deployment_store, k) = Some(TransactionOf(k))
               /\ TransactionOf(k).type = "Execute" =>
                     MapGet(execution_store, k) = Some(TransactionOf(k))
          ELSE GetTransaction(k) = None
    /\ store_call.op = "get_transaction" =>
          got = IF last_op[store_call.id] = "insert"
                THEN Some(TransactionOf(store_call.id))
                ELSE None

\* An execution was inserted and is returned, after a deployment was inserted
\* and then removed, and an insert of the third transaction failed.
C17_Witness ==
    /\ store_call.op = "get_transaction"
    /\ TransactionOf(store_call.id).type = "Execute"
    /\ got = Some(TransactionOf(store_call.id))
    /\ \E k \in TransactionIDs :
          /\ last_op[k] = "remove"
          /\ TransactionOf(k).type = "Deploy"
          /\ GetTransaction(k) = None
    /\ \E k \in TransactionIDs : last_op[k] = "none"


(***************************************************************************)
(* The transaction store: the atomic batch of a call.                      *)
(***************************************************************************)
\* One atomic operation made on the ID map, the deployment store and the
\* execution store, in this order.
OnAllMaps(operation) ==
    << <<"id_map", operation>>,
       <<"deployment_store", operation>>,
       <<"execution_store", operation>> >>

\* No map has a batch open or a write waiting.
NoOpenBatch ==
    /\ ~id_map.in_batch /\ id_map.batch = <<>>
    /\ ~deployment_store.in_batch /\ deployment_store.batch = <<>>
    /\ ~execution_store.in_batch /\ execution_store.batch = <<>>

\* The last call started no batch.
NoBatchStarted == atomic_log = <<>>

\* The last call started a batch on the three maps and ended it once, with the
\* given operation on the three maps.
BatchEndedOnceWith(operation) ==
    atomic_log = OnAllMaps("start_atomic") \o OnAllMaps(operation)

\* The state part: what the last insert or remove did with its batch.
BatchEndsOnce ==
    store_call.op \in { "insert", "remove" } =>
        /\ NoOpenBatch
        /\ \/ store_call.ok /\ BatchEndedOnceWith("finish_atomic")
           \/ ~store_call.ok /\ BatchEndedOnceWith("abort_atomic")
           \/ ~store_call.ok /\ store_call.op = "remove" /\ NoBatchStarted

\* The step part: a remove of an ID that the ID map does not hold.
RemoveOfAbsentID ==
    (store_call'.op = "remove" /\ MapGet(id_map, store_call'.id) = None) =>
        /\ ~store_call'.ok
        /\ atomic_log' = <<>>
        /\ UNCHANGED << id_map, deployment_store, execution_store >>

\* The step part: a remove of an ID that the ID map holds, and every insert,
\* starts a batch.
OtherCallsStartBatch ==
    (\/ store_call'.op = "insert"
     \/ store_call'.op = "remove" /\ MapGet(id_map, store_call'.id) # None) =>
        atomic_log' # <<>>

\* C21: every insert or remove call that starts an atomic batch ends it exactly
\* once: with finish_atomic on the three maps when it returns Ok, with
\* abort_atomic on the three maps (and no finish_atomic) when a write fails and
\* it returns an error; a remove of an ID that is not in the ID map returns an
\* error, starts no batch and changes no map.
C21_BatchEndsExactlyOnce ==
    /\ []BatchEndsOnce
    /\ [][RemoveOfAbsentID /\ OtherCallsStartBatch]_vars

\* A remove that started a batch and aborted it, while another transaction is
\* stored by an insert that finished its batch.
C21_Witness ==
    /\ store_call.op = "remove"
    /\ ~store_call.ok
    /\ BatchEndedOnceWith("abort_atomic")
    /\ \E k \in TransactionIDs : k # store_call.id /\ last_op[k] = "insert"
    /\ \E k \in TransactionIDs : MapGet(id_map, k) = None

====
